---- MODULE Spec2Model ----
(***************************************************************************)
(* Model of app.py, the "Geo Buffer/Intersect Service": pick_pair,         *)
(* _fix_valid, _safe_union, union_from_fc, process_one and the three       *)
(* routes.  The service keeps no state between requests, so the state is   *)
(* the module global make_valid plus the request being served and its      *)
(* response.  The handlers are synchronous and run in one step each, but   *)
(* buffer_intersect_files is a coroutine: it suspends at each of its two   *)
(* `await ... read()` and other requests are served meanwhile.             *)
(*                                                                         *)
(* Python values are tagged records: None, Str (a sequence of characters), *)
(* PyInt, List and Dict (a function from keys to values).  A call either   *)
(* returns, Return(v), or raises, Raise(exception class, message).         *)
(*                                                                         *)
(* The geometry engine (shapely/GEOS/pyproj) is outside the repository.    *)
(* It is modelled on a line of 1 km cells: a geometry is a set of cells,   *)
(* its parts are the maximal runs of adjacent cells, union/intersection    *)
(* are the set operations, and buffering by d metres dilates by d \div     *)
(* 1000 cells.  Whether an engine call raises GEOSException is an input    *)
(* of the call (the "faults" of the request).                              *)
(***************************************************************************)
EXTENDS Integers, Sequences, FiniteSets, TLC

VARIABLES make_valid, pc, op, req, resp, engine_log, frame, between

vars == <<make_valid, pc, op, req, resp, engine_log, frame, between>>

\* ------------------------------------------------------------------ bounds
MaxItems == 2
MaxFeatures == 3
MaxNameParts == 3
MaxBetween == 1      \* requests served while one upload request is suspended

\* ------------------------------------------------------ Python value model
None == [t |-> "None"]
Str(s) == [t |-> "str", s |-> s]
PyInt(n) == [t |-> "int", n |-> n]
List(l) == [t |-> "list", l |-> l]
Dict(d) == [t |-> "dict", d |-> d]
PyBool(b) == [t |-> "bool", b |-> b]
\* the float n / d; d = 0 for the non-finite ones: inf, -inf (n = 1, -1), nan (n = 0)
PyFloat(n, d) == [t |-> "float", n |-> n, d |-> d]
EmptyDict == Dict(<<>>)

Return(v) == [ret |-> v]
Raise(e, m) == [exc |-> e, msg |-> m]
IsRaise(r) == "exc" \in DOMAIN r

\* Python truthiness, as used by `x or y` and `not x`
Truthy(v) ==
  CASE v.t = "None" -> FALSE
    [] v.t = "str" -> Len(v.s) > 0
    [] v.t = "int" -> v.n # 0
    [] v.t = "bool" -> v.b
    [] v.t = "float" -> v.n # 0 \/ v.d = 0
    [] v.t = "list" -> Len(v.l) > 0
    [] v.t = "dict" -> DOMAIN v.d # {}
    [] OTHER -> TRUE

\* dict.get(k) / dict.get(k, default)
GetOr(v, k, default) == IF k \in DOMAIN v.d THEN v.d[k] ELSE default
Get(v, k) == GetOr(v, k, None)

\* ------------------------------------------------------------------ strings
\* A str is the sequence of its characters; a character is its Unicode code
\* point.  Chars reads a text written in ASCII letters, digits and punctuation.
AsciiLow ==
  <<" ", "!", "\"", "#", "$", "%", "&", "'", "(", ")", "*", "+", ",", "-", ".", "/",
    "0", "1", "2", "3", "4", "5", "6", "7", "8", "9", ":", ";", "<", "=", ">", "?",
    "@", "A", "B", "C", "D", "E", "F", "G", "H", "I", "J", "K", "L", "M", "N", "O",
    "P", "Q", "R", "S", "T", "U", "V", "W", "X", "Y", "Z", "[", "\\", "]", "^", "_">>

AsciiLetters ==
  <<"a", "b", "c", "d", "e", "f", "g", "h", "i", "j", "k", "l", "m",
    "n", "o", "p", "q", "r", "s", "t", "u", "v", "w", "x", "y", "z">>

\* ord(c): " " is 32, "a" is 97
Ord(c) ==
  IF \E i \in 1..26 : AsciiLetters[i] = c
  THEN 96 + CHOOSE i \in 1..26 : AsciiLetters[i] = c
  ELSE 31 + CHOOSE i \in 1..64 : AsciiLow[i] = c

Chars(s) == [i \in 1..Len(s) |-> Ord(s[i])]

\* str.lower(), one character alone: the characters from first to last, every
\* step-th, are lowered by adding offset: <<first, last, step, offset>>
LowerRanges ==
  {<<65, 90, 1, 32>>, <<192, 214, 1, 32>>, <<216, 222, 1, 32>>, <<256, 302, 2, 1>>,
   <<306, 310, 2, 1>>, <<313, 327, 2, 1>>, <<330, 374, 2, 1>>, <<376, 376, 1, -121>>,
   <<377, 381, 2, 1>>, <<385, 385, 1, 210>>, <<386, 388, 2, 1>>, <<390, 390, 1, 206>>,
   <<391, 391, 1, 1>>, <<393, 394, 1, 205>>, <<395, 395, 1, 1>>, <<398, 398, 1, 79>>,
   <<399, 399, 1, 202>>, <<400, 400, 1, 203>>, <<401, 401, 1, 1>>, <<403, 403, 1, 205>>,
   <<404, 404, 1, 207>>, <<406, 406, 1, 211>>, <<407, 407, 1, 209>>, <<408, 408, 1, 1>>,
   <<412, 412, 1, 211>>, <<413, 413, 1, 213>>, <<415, 415, 1, 214>>, <<416, 420, 2, 1>>,
   <<422, 422, 1, 218>>, <<423, 423, 1, 1>>, <<425, 425, 1, 218>>, <<428, 428, 1, 1>>,
   <<430, 430, 1, 218>>, <<431, 431, 1, 1>>, <<433, 434, 1, 217>>, <<435, 437, 2, 1>>,
   <<439, 439, 1, 219>>, <<440, 440, 1, 1>>, <<444, 444, 1, 1>>, <<452, 452, 1, 2>>,
   <<453, 453, 1, 1>>, <<455, 455, 1, 2>>, <<456, 456, 1, 1>>, <<458, 458, 1, 2>>,
   <<459, 475, 2, 1>>, <<478, 494, 2, 1>>, <<497, 497, 1, 2>>, <<498, 500, 2, 1>>,
   <<502, 502, 1, -97>>, <<503, 503, 1, -56>>, <<504, 542, 2, 1>>, <<544, 544, 1, -130>>,
   <<546, 562, 2, 1>>, <<570, 570, 1, 10795>>, <<571, 571, 1, 1>>, <<573, 573, 1, -163>>,
   <<574, 574, 1, 10792>>, <<577, 577, 1, 1>>, <<579, 579, 1, -195>>, <<580, 580, 1, 69>>,
   <<581, 581, 1, 71>>, <<582, 590, 2, 1>>, <<880, 882, 2, 1>>, <<886, 886, 1, 1>>,
   <<895, 895, 1, 116>>, <<902, 902, 1, 38>>, <<904, 906, 1, 37>>, <<908, 908, 1, 64>>,
   <<910, 911, 1, 63>>, <<913, 929, 1, 32>>, <<931, 939, 1, 32>>, <<975, 975, 1, 8>>,
   <<984, 1006, 2, 1>>, <<1012, 1012, 1, -60>>, <<1015, 1015, 1, 1>>, <<1017, 1017, 1, -7>>,
   <<1018, 1018, 1, 1>>, <<1021, 1023, 1, -130>>, <<1024, 1039, 1, 80>>, <<1040, 1071, 1, 32>>,
   <<1120, 1152, 2, 1>>, <<1162, 1214, 2, 1>>, <<1216, 1216, 1, 15>>, <<1217, 1229, 2, 1>>,
   <<1232, 1326, 2, 1>>, <<1329, 1366, 1, 48>>, <<4256, 4293, 1, 7264>>, <<4295, 4295, 1, 7264>>,
   <<4301, 4301, 1, 7264>>, <<5024, 5103, 1, 38864>>, <<5104, 5109, 1, 8>>, <<7312, 7354, 1, -3008>>,
   <<7357, 7359, 1, -3008>>, <<7680, 7828, 2, 1>>, <<7838, 7838, 1, -7615>>, <<7840, 7934, 2, 1>>,
   <<7944, 7951, 1, -8>>, <<7960, 7965, 1, -8>>, <<7976, 7983, 1, -8>>, <<7992, 7999, 1, -8>>,
   <<8008, 8013, 1, -8>>, <<8025, 8031, 2, -8>>, <<8040, 8047, 1, -8>>, <<8072, 8079, 1, -8>>,
   <<8088, 8095, 1, -8>>, <<8104, 8111, 1, -8>>, <<8120, 8121, 1, -8>>, <<8122, 8123, 1, -74>>,
   <<8124, 8124, 1, -9>>, <<8136, 8139, 1, -86>>, <<8140, 8140, 1, -9>>, <<8152, 8153, 1, -8>>,
   <<8154, 8155, 1, -100>>, <<8168, 8169, 1, -8>>, <<8170, 8171, 1, -112>>, <<8172, 8172, 1, -7>>,
   <<8184, 8185, 1, -128>>, <<8186, 8187, 1, -126>>, <<8188, 8188, 1, -9>>, <<8486, 8486, 1, -7517>>,
   <<8490, 8490, 1, -8383>>, <<8491, 8491, 1, -8262>>, <<8498, 8498, 1, 28>>, <<8544, 8559, 1, 16>>,
   <<8579, 8579, 1, 1>>, <<9398, 9423, 1, 26>>, <<11264, 11311, 1, 48>>, <<11360, 11360, 1, 1>>,
   <<11362, 11362, 1, -10743>>, <<11363, 11363, 1, -3814>>, <<11364, 11364, 1, -10727>>, <<11367, 11371, 2, 1>>,
   <<11373, 11373, 1, -10780>>, <<11374, 11374, 1, -10749>>, <<11375, 11375, 1, -10783>>, <<11376, 11376, 1, -10782>>,
   <<11378, 11378, 1, 1>>, <<11381, 11381, 1, 1>>, <<11390, 11391, 1, -10815>>, <<11392, 11490, 2, 1>>,
   <<11499, 11501, 2, 1>>, <<11506, 11506, 1, 1>>, <<42560, 42604, 2, 1>>, <<42624, 42650, 2, 1>>,
   <<42786, 42798, 2, 1>>, <<42802, 42862, 2, 1>>, <<42873, 42875, 2, 1>>, <<42877, 42877, 1, -35332>>,
   <<42878, 42886, 2, 1>>, <<42891, 42891, 1, 1>>, <<42893, 42893, 1, -42280>>, <<42896, 42898, 2, 1>>,
   <<42902, 42920, 2, 1>>, <<42922, 42922, 1, -42308>>, <<42923, 42923, 1, -42319>>, <<42924, 42924, 1, -42315>>,
   <<42925, 42925, 1, -42305>>, <<42926, 42926, 1, -42308>>, <<42928, 42928, 1, -42258>>, <<42929, 42929, 1, -42282>>,
   <<42930, 42930, 1, -42261>>, <<42931, 42931, 1, 928>>, <<42932, 42946, 2, 1>>, <<42948, 42948, 1, -48>>,
   <<42949, 42949, 1, -42307>>, <<42950, 42950, 1, -35384>>, <<42951, 42953, 2, 1>>, <<42960, 42960, 1, 1>>,
   <<42966, 42968, 2, 1>>, <<42997, 42997, 1, 1>>, <<65313, 65338, 1, 32>>, <<66560, 66599, 1, 40>>,
   <<66736, 66771, 1, 40>>, <<66928, 66964, 2, 39>>, <<66929, 66937, 2, 39>>, <<66941, 66953, 2, 39>>,
   <<66957, 66961, 2, 39>>, <<66965, 66965, 1, 39>>, <<68736, 68786, 1, 64>>, <<71840, 71871, 1, 32>>,
   <<93760, 93791, 1, 32>>, <<125184, 125217, 1, 34>>}

InLowerRange(c, r) == r[1] <= c /\ c <= r[2] /\ (c - r[1]) % r[3] = 0

LowerChar(c) ==
  IF \E r \in LowerRanges : InLowerRange(c, r)
  THEN c + (CHOOSE r \in LowerRanges : InLowerRange(c, r))[4]
  ELSE c

\* the case-ignorable characters, as <<first, last>>
CaseIgnorableRanges ==
  {<<39, 39>>, <<46, 46>>, <<58, 58>>, <<94, 94>>, <<96, 96>>, <<168, 168>>,
   <<173, 173>>, <<175, 175>>, <<180, 180>>, <<183, 184>>, <<688, 879>>, <<884, 885>>,
   <<890, 890>>, <<900, 901>>, <<903, 903>>, <<1155, 1161>>, <<1369, 1369>>, <<1375, 1375>>,
   <<1425, 1469>>, <<1471, 1471>>, <<1473, 1474>>, <<1476, 1477>>, <<1479, 1479>>, <<1524, 1524>>,
   <<1536, 1541>>, <<1552, 1562>>, <<1564, 1564>>, <<1600, 1600>>, <<1611, 1631>>, <<1648, 1648>>,
   <<1750, 1757>>, <<1759, 1768>>, <<1770, 1773>>, <<1807, 1807>>, <<1809, 1809>>, <<1840, 1866>>,
   <<1958, 1968>>, <<2027, 2037>>, <<2042, 2042>>, <<2045, 2045>>, <<2070, 2093>>, <<2137, 2139>>,
   <<2184, 2184>>, <<2192, 2193>>, <<2200, 2207>>, <<2249, 2306>>, <<2362, 2362>>, <<2364, 2364>>,
   <<2369, 2376>>, <<2381, 2381>>, <<2385, 2391>>, <<2402, 2403>>, <<2417, 2417>>, <<2433, 2433>>,
   <<2492, 2492>>, <<2497, 2500>>, <<2509, 2509>>, <<2530, 2531>>, <<2558, 2558>>, <<2561, 2562>>,
   <<2620, 2620>>, <<2625, 2626>>, <<2631, 2632>>, <<2635, 2637>>, <<2641, 2641>>, <<2672, 2673>>,
   <<2677, 2677>>, <<2689, 2690>>, <<2748, 2748>>, <<2753, 2757>>, <<2759, 2760>>, <<2765, 2765>>,
   <<2786, 2787>>, <<2810, 2815>>, <<2817, 2817>>, <<2876, 2876>>, <<2879, 2879>>, <<2881, 2884>>,
   <<2893, 2893>>, <<2901, 2902>>, <<2914, 2915>>, <<2946, 2946>>, <<3008, 3008>>, <<3021, 3021>>,
   <<3072, 3072>>, <<3076, 3076>>, <<3132, 3132>>, <<3134, 3136>>, <<3142, 3144>>, <<3146, 3149>>,
   <<3157, 3158>>, <<3170, 3171>>, <<3201, 3201>>, <<3260, 3260>>, <<3263, 3263>>, <<3270, 3270>>,
   <<3276, 3277>>, <<3298, 3299>>, <<3328, 3329>>, <<3387, 3388>>, <<3393, 3396>>, <<3405, 3405>>,
   <<3426, 3427>>, <<3457, 3457>>, <<3530, 3530>>, <<3538, 3540>>, <<3542, 3542>>, <<3633, 3633>>,
   <<3636, 3642>>, <<3654, 3662>>, <<3761, 3761>>, <<3764, 3772>>, <<3782, 3782>>, <<3784, 3789>>,
   <<3864, 3865>>, <<3893, 3893>>, <<3895, 3895>>, <<3897, 3897>>, <<3953, 3966>>, <<3968, 3972>>,
   <<3974, 3975>>, <<3981, 3991>>, <<3993, 4028>>, <<4038, 4038>>, <<4141, 4144>>, <<4146, 4151>>,
   <<4153, 4154>>, <<4157, 4158>>, <<4184, 4185>>, <<4190, 4192>>, <<4209, 4212>>, <<4226, 4226>>,
   <<4229, 4230>>, <<4237, 4237>>, <<4253, 4253>>, <<4348, 4348>>, <<4957, 4959>>, <<5906, 5908>>,
   <<5938, 5939>>, <<5970, 5971>>, <<6002, 6003>>, <<6068, 6069>>, <<6071, 6077>>, <<6086, 6086>>,
   <<6089, 6099>>, <<6103, 6103>>, <<6109, 6109>>, <<6155, 6159>>, <<6211, 6211>>, <<6277, 6278>>,
   <<6313, 6313>>, <<6432, 6434>>, <<6439, 6440>>, <<6450, 6450>>, <<6457, 6459>>, <<6679, 6680>>,
   <<6683, 6683>>, <<6742, 6742>>, <<6744, 6750>>, <<6752, 6752>>, <<6754, 6754>>, <<6757, 6764>>,
   <<6771, 6780>>, <<6783, 6783>>, <<6823, 6823>>, <<6832, 6862>>, <<6912, 6915>>, <<6964, 6964>>,
   <<6966, 6970>>, <<6972, 6972>>, <<6978, 6978>>, <<7019, 7027>>, <<7040, 7041>>, <<7074, 7077>>,
   <<7080, 7081>>, <<7083, 7085>>, <<7142, 7142>>, <<7144, 7145>>, <<7149, 7149>>, <<7151, 7153>>,
   <<7212, 7219>>, <<7222, 7223>>, <<7288, 7293>>, <<7376, 7378>>, <<7380, 7392>>, <<7394, 7400>>,
   <<7405, 7405>>, <<7412, 7412>>, <<7416, 7417>>, <<7468, 7530>>, <<7544, 7544>>, <<7579, 7679>>,
   <<8125, 8125>>, <<8127, 8129>>, <<8141, 8143>>, <<8157, 8159>>, <<8173, 8175>>, <<8189, 8190>>,
   <<8203, 8207>>, <<8216, 8217>>, <<8228, 8228>>, <<8231, 8231>>, <<8234, 8238>>, <<8288, 8292>>,
   <<8294, 8303>>, <<8305, 8305>>, <<8319, 8319>>, <<8336, 8348>>, <<8400, 8432>>, <<11388, 11389>>,
   <<11503, 11505>>, <<11631, 11631>>, <<11647, 11647>>, <<11744, 11775>>, <<11823, 11823>>, <<12293, 12293>>,
   <<12330, 12333>>, <<12337, 12341>>, <<12347, 12347>>, <<12441, 12446>>, <<12540, 12542>>, <<40981, 40981>>,
   <<42232, 42237>>, <<42508, 42508>>, <<42607, 42610>>, <<42612, 42621>>, <<42623, 42623>>, <<42652, 42655>>,
   <<42736, 42737>>, <<42752, 42785>>, <<42864, 42864>>, <<42888, 42890>>, <<42994, 42996>>, <<43000, 43001>>,
   <<43010, 43010>>, <<43014, 43014>>, <<43019, 43019>>, <<43045, 43046>>, <<43052, 43052>>, <<43204, 43205>>,
   <<43232, 43249>>, <<43263, 43263>>, <<43302, 43309>>, <<43335, 43345>>, <<43392, 43394>>, <<43443, 43443>>,
   <<43446, 43449>>, <<43452, 43453>>, <<43471, 43471>>, <<43493, 43494>>, <<43561, 43566>>, <<43569, 43570>>,
   <<43573, 43574>>, <<43587, 43587>>, <<43596, 43596>>, <<43632, 43632>>, <<43644, 43644>>, <<43696, 43696>>,
   <<43698, 43700>>, <<43703, 43704>>, <<43710, 43711>>, <<43713, 43713>>, <<43741, 43741>>, <<43756, 43757>>,
   <<43763, 43764>>, <<43766, 43766>>, <<43867, 43871>>, <<43881, 43883>>, <<44005, 44005>>, <<44008, 44008>>,
   <<44013, 44013>>, <<64286, 64286>>, <<64434, 64450>>, <<65024, 65039>>, <<65043, 65043>>, <<65056, 65071>>,
   <<65106, 65106>>, <<65109, 65109>>, <<65279, 65279>>, <<65287, 65287>>, <<65294, 65294>>, <<65306, 65306>>,
   <<65342, 65342>>, <<65344, 65344>>, <<65392, 65392>>, <<65438, 65439>>, <<65507, 65507>>, <<65529, 65531>>,
   <<66045, 66045>>, <<66272, 66272>>, <<66422, 66426>>, <<67456, 67461>>, <<67463, 67504>>, <<67506, 67514>>,
   <<68097, 68099>>, <<68101, 68102>>, <<68108, 68111>>, <<68152, 68154>>, <<68159, 68159>>, <<68325, 68326>>,
   <<68900, 68903>>, <<69291, 69292>>, <<69446, 69456>>, <<69506, 69509>>, <<69633, 69633>>, <<69688, 69702>>,
   <<69744, 69744>>, <<69747, 69748>>, <<69759, 69761>>, <<69811, 69814>>, <<69817, 69818>>, <<69821, 69821>>,
   <<69826, 69826>>, <<69837, 69837>>, <<69888, 69890>>, <<69927, 69931>>, <<69933, 69940>>, <<70003, 70003>>,
   <<70016, 70017>>, <<70070, 70078>>, <<70089, 70092>>, <<70095, 70095>>, <<70191, 70193>>, <<70196, 70196>>,
   <<70198, 70199>>, <<70206, 70206>>, <<70367, 70367>>, <<70371, 70378>>, <<70400, 70401>>, <<70459, 70460>>,
   <<70464, 70464>>, <<70502, 70508>>, <<70512, 70516>>, <<70712, 70719>>, <<70722, 70724>>, <<70726, 70726>>,
   <<70750, 70750>>, <<70835, 70840>>, <<70842, 70842>>, <<70847, 70848>>, <<70850, 70851>>, <<71090, 71093>>,
   <<71100, 71101>>, <<71103, 71104>>, <<71132, 71133>>, <<71219, 71226>>, <<71229, 71229>>, <<71231, 71232>>,
   <<71339, 71339>>, <<71341, 71341>>, <<71344, 71349>>, <<71351, 71351>>, <<71453, 71455>>, <<71458, 71461>>,
   <<71463, 71467>>, <<71727, 71735>>, <<71737, 71738>>, <<71995, 71996>>, <<71998, 71998>>, <<72003, 72003>>,
   <<72148, 72151>>, <<72154, 72155>>, <<72160, 72160>>, <<72193, 72202>>, <<72243, 72248>>, <<72251, 72254>>,
   <<72263, 72263>>, <<72273, 72278>>, <<72281, 72283>>, <<72330, 72342>>, <<72344, 72345>>, <<72752, 72758>>,
   <<72760, 72765>>, <<72767, 72767>>, <<72850, 72871>>, <<72874, 72880>>, <<72882, 72883>>, <<72885, 72886>>,
   <<73009, 73014>>, <<73018, 73018>>, <<73020, 73021>>, <<73023, 73029>>, <<73031, 73031>>, <<73104, 73105>>,
   <<73109, 73109>>, <<73111, 73111>>, <<73459, 73460>>, <<78896, 78904>>, <<92912, 92916>>, <<92976, 92982>>,
   <<92992, 92995>>, <<94031, 94031>>, <<94095, 94111>>, <<94176, 94177>>, <<94179, 94180>>, <<110576, 110579>>,
   <<110581, 110587>>, <<110589, 110590>>, <<113821, 113822>>, <<113824, 113827>>, <<118528, 118573>>, <<118576, 118598>>,
   <<119143, 119145>>, <<119155, 119170>>, <<119173, 119179>>, <<119210, 119213>>, <<119362, 119364>>, <<121344, 121398>>,
   <<121403, 121452>>, <<121461, 121461>>, <<121476, 121476>>, <<121499, 121503>>, <<121505, 121519>>, <<122880, 122886>>,
   <<122888, 122904>>, <<122907, 122913>>, <<122915, 122916>>, <<122918, 122922>>, <<123184, 123197>>, <<123566, 123566>>,
   <<123628, 123631>>, <<125136, 125142>>, <<125252, 125259>>, <<127995, 127999>>, <<917505, 917505>>, <<917536, 917631>>,
   <<917760, 917999>>}

\* the cased characters that are not case-ignorable, as <<first, last>>
CasedRanges ==
  {<<65, 90>>, <<97, 122>>, <<170, 170>>, <<181, 181>>, <<186, 186>>, <<192, 214>>,
   <<216, 246>>, <<248, 442>>, <<444, 447>>, <<452, 659>>, <<661, 687>>, <<880, 883>>,
   <<886, 887>>, <<891, 893>>, <<895, 895>>, <<902, 902>>, <<904, 906>>, <<908, 908>>,
   <<910, 929>>, <<931, 1013>>, <<1015, 1153>>, <<1162, 1327>>, <<1329, 1366>>, <<1376, 1416>>,
   <<4256, 4293>>, <<4295, 4295>>, <<4301, 4301>>, <<4304, 4346>>, <<4349, 4351>>, <<5024, 5109>>,
   <<5112, 5117>>, <<7296, 7304>>, <<7312, 7354>>, <<7357, 7359>>, <<7424, 7467>>, <<7531, 7543>>,
   <<7545, 7578>>, <<7680, 7957>>, <<7960, 7965>>, <<7968, 8005>>, <<8008, 8013>>, <<8016, 8023>>,
   <<8025, 8025>>, <<8027, 8027>>, <<8029, 8029>>, <<8031, 8061>>, <<8064, 8116>>, <<8118, 8124>>,
   <<8126, 8126>>, <<8130, 8132>>, <<8134, 8140>>, <<8144, 8147>>, <<8150, 8155>>, <<8160, 8172>>,
   <<8178, 8180>>, <<8182, 8188>>, <<8450, 8450>>, <<8455, 8455>>, <<8458, 8467>>, <<8469, 8469>>,
   <<8473, 8477>>, <<8484, 8484>>, <<8486, 8486>>, <<8488, 8488>>, <<8490, 8493>>, <<8495, 8500>>,
   <<8505, 8505>>, <<8508, 8511>>, <<8517, 8521>>, <<8526, 8526>>, <<8544, 8575>>, <<8579, 8580>>,
   <<9398, 9449>>, <<11264, 11387>>, <<11390, 11492>>, <<11499, 11502>>, <<11506, 11507>>, <<11520, 11557>>,
   <<11559, 11559>>, <<11565, 11565>>, <<42560, 42605>>, <<42624, 42651>>, <<42786, 42863>>, <<42865, 42887>>,
   <<42891, 42894>>, <<42896, 42954>>, <<42960, 42961>>, <<42963, 42963>>, <<42965, 42969>>, <<42997, 42998>>,
   <<43002, 43002>>, <<43824, 43866>>, <<43872, 43880>>, <<43888, 43967>>, <<64256, 64262>>, <<64275, 64279>>,
   <<65313, 65338>>, <<65345, 65370>>, <<66560, 66639>>, <<66736, 66771>>, <<66776, 66811>>, <<66928, 66938>>,
   <<66940, 66954>>, <<66956, 66962>>, <<66964, 66965>>, <<66967, 66977>>, <<66979, 66993>>, <<66995, 67001>>,
   <<67003, 67004>>, <<68736, 68786>>, <<68800, 68850>>, <<71840, 71903>>, <<93760, 93823>>, <<119808, 119892>>,
   <<119894, 119964>>, <<119966, 119967>>, <<119970, 119970>>, <<119973, 119974>>, <<119977, 119980>>, <<119982, 119993>>,
   <<119995, 119995>>, <<119997, 120003>>, <<120005, 120069>>, <<120071, 120074>>, <<120077, 120084>>, <<120086, 120092>>,
   <<120094, 120121>>, <<120123, 120126>>, <<120128, 120132>>, <<120134, 120134>>, <<120138, 120144>>, <<120146, 120485>>,
   <<120488, 120512>>, <<120514, 120538>>, <<120540, 120570>>, <<120572, 120596>>, <<120598, 120628>>, <<120630, 120654>>,
   <<120656, 120686>>, <<120688, 120712>>, <<120714, 120744>>, <<120746, 120770>>, <<120772, 120779>>, <<122624, 122633>>,
   <<122635, 122654>>, <<125184, 125251>>, <<127280, 127305>>, <<127312, 127337>>, <<127344, 127369>>}

IsCaseIgnorable(c) == \E r \in CaseIgnorableRanges : r[1] <= c /\ c <= r[2]

IsCased(c) == \E r \in CasedRanges : r[1] <= c /\ c <= r[2]

RECURSIVE PrevSolid(_, _)
\* the nearest position at or before j whose character is not case-ignorable, 0 if none
PrevSolid(s, j) ==
  IF j = 0 THEN 0 ELSE IF IsCaseIgnorable(s[j]) THEN PrevSolid(s, j - 1) ELSE j

RECURSIVE NextSolid(_, _)
\* the nearest position at or after j whose character is not case-ignorable, 0 if none
NextSolid(s, j) ==
  IF j > Len(s) THEN 0 ELSE IF IsCaseIgnorable(s[j]) THEN NextSolid(s, j + 1) ELSE j

\* a capital sigma at position i ends a word: a cased character precedes it
\* and none follows, case-ignorable characters skipped
FinalSigma(s, i) ==
  /\ PrevSolid(s, i - 1) # 0 /\ IsCased(s[PrevSolid(s, i - 1)])
  /\ NextSolid(s, i + 1) = 0 \/ ~IsCased(s[NextSolid(s, i + 1)])

\* what str.lower() puts for the character at position i
LowerAt(s, i) ==
  IF s[i] = 931 THEN (IF FinalSigma(s, i) THEN <<962>> ELSE <<963>>)
  ELSE IF s[i] = 304 THEN <<105, 775>>
  ELSE <<LowerChar(s[i])>>

RECURSIVE LowerFrom(_, _)
LowerFrom(s, i) == IF i > Len(s) THEN <<>> ELSE LowerAt(s, i) \o LowerFrom(s, i + 1)

\* str.lower()
Lower(s) == LowerFrom(s, 1)

\* str.startswith(p)
StartsWith(s, p) == Len(s) >= Len(p) /\ SubSeq(s, 1, Len(p)) = p

RECURSIVE Replace(_, _, _)
\* str.replace(old, new): every non-overlapping occurrence, left to right
Replace(s, old, new) ==
  IF Len(s) < Len(old) \/ Len(old) = 0 THEN s
  ELSE IF SubSeq(s, 1, Len(old)) = old
       THEN new \o Replace(SubSeq(s, Len(old) + 1, Len(s)), old, new)
       ELSE <<Head(s)>> \o Replace(Tail(s), old, new)

RECURSIVE Contains(_, _)
\* `sub in s` for two strs
Contains(s, sub) ==
  IF Len(s) < Len(sub) THEN FALSE
  ELSE StartsWith(s, sub) \/ Contains(Tail(s), sub)

s_coop == Chars(<<"c","o","o","p">>)
s_protected == Chars(<<"p","r","o","t","e","c","t","e","d">>)
s_geojson == Chars(<<".","g","e","o","j","s","o","n">>)

\* ---------------------------------------------------------------- pick_pair
Slot(j, n) ==
  IF n = 1
  THEN [kind |-> Get(j, "kind_1"), name |-> Get(j, "name_1"), geojson |-> Get(j, "geojson_1")]
  ELSE [kind |-> Get(j, "kind_2"), name |-> Get(j, "name_2"), geojson |-> Get(j, "geojson_2")]

Pair(c, p) ==
  Return([coop_name |-> c.name, coop_fc |-> c.geojson,
          prot_name |-> p.name, prot_fc |-> p.geojson])

\* (j[k] or {}).get("name"), (j[k] or {}).get("geojson")
ExplicitSide(v) ==
  IF ~Truthy(v) THEN [name |-> None, geojson |-> None]
  ELSE [name |-> Get(v, "name"), geojson |-> Get(v, "geojson")]

\* faulty variant: the two shape keys count only when no numbered kind is given
IsExplicit_unlessKind(j) ==
  /\ j.t = "dict"
  /\ "coop" \in DOMAIN j.d /\ "protected" \in DOMAIN j.d
  /\ "kind_1" \notin DOMAIN j.d /\ "kind_2" \notin DOMAIN j.d

\* `"coop" in j and "protected" in j`: keys of a dict, substrings of a str,
\* elements of a list
IsExplicit(j) ==
  CASE j.t = "dict" -> "coop" \in DOMAIN j.d /\ "protected" \in DOMAIN j.d
    [] j.t = "str" -> Contains(j.s, s_coop) /\ Contains(j.s, s_protected)
    [] j.t = "list" ->
         /\ \E i \in 1..Len(j.l) : j.l[i] = Str(s_coop)
         /\ \E i \in 1..Len(j.l) : j.l[i] = Str(s_protected)

\* faulty variant: the positional default is taken as soon as slot 1 has no kind
NeitherKind_first(a, b) == ~Truthy(a.kind)

\* `not a["kind"] and not b["kind"]`
NeitherKind(a, b) == ~Truthy(a.kind) /\ ~Truthy(b.kind)

\* faulty variant: the prefix test without .lower()
IsCoopKind_cased(kind) == Truthy(kind) /\ StartsWith(kind.s, s_coop)

\* `(kind or "").lower().startswith("coop")`, for a kind that is falsy or a str
IsCoopKind(kind) == Truthy(kind) /\ StartsWith(Lower(kind.s), s_coop)

pick_pair(j) ==
  IF j.t \notin {"dict", "str", "list"}
  THEN Raise("TypeError", "argument is not iterable")
  ELSE IF IsExplicit(j)
  THEN IF j.t = "str"
       THEN Raise("TypeError", "string indices must be integers")
       ELSE IF j.t = "list"
       THEN Raise("TypeError", "list indices must be integers or slices, not str")
       ELSE IF \E k \in {"coop", "protected"} : Truthy(j.d[k]) /\ j.d[k].t # "dict"
       THEN Raise("AttributeError", "object has no attribute 'get'")
       ELSE Pair(ExplicitSide(j.d["coop"]), ExplicitSide(j.d["protected"]))
  ELSE IF j.t # "dict"
  THEN Raise("AttributeError", "object has no attribute 'get'")
  ELSE LET a == Slot(j, 1)
           b == Slot(j, 2)
       IN IF NeitherKind(a, b)
          THEN Pair(a, b)
          ELSE IF Truthy(a.kind) /\ a.kind.t # "str"
               THEN Raise("AttributeError", "object has no attribute 'lower'")
               ELSE IF IsCoopKind(a.kind) THEN Pair(a, b) ELSE Pair(b, a)

\* ---------------------------------------------------------- geometry engine
CellM == 1000        \* side of one cell of the line model, in metres
AreaBits == 3        \* an area is a double with AreaBits binary places
AreaScale == 2 ^ AreaBits   \* planar areas are counted in 1/AreaScale m^2

\* a shapely geometry: its cells, and how the engine's repairs act on it
Geom(cells, has_z, valid, to2d, mv, b0) ==
  [t |-> "geom", cells |-> cells, has_z |-> has_z, valid |-> valid,
   to2d |-> to2d, mv |-> mv, b0 |-> b0]

Plain(cells) == Geom(cells, FALSE, TRUE, "ok", "fix", "fix")

\* GeometryCollection()
GeometryCollection == Plain({})

is_empty(g) == g.cells = {}

\* u.union(g), unary_union
EngineUnion(u, g) ==
  Geom(u.cells \cup g.cells, u.has_z \/ g.has_z, TRUE, "ok", "fix", "fix")

\* a.intersection(b)
EngineIntersection(a, b) == Plain(a.cells \cap b.cells)

\* transform(to_m, g): cells (geographic) to metre offsets (planar)
to_m(g) == [t |-> "planar", xs |-> {c * CellM : c \in g.cells}]

\* transform(to_geo, gm)
to_geo(gm) == Plain({x \div CellM : x \in gm.xs})

\* gm.buffer(d) in planar space: dilation for d >= 0, erosion for d < 0
EngineBuffer(gm, d) ==
  IF d >= 0
  THEN LET k == d \div CellM
       IN [t |-> "planar",
           xs |-> UNION {{x + i * CellM : i \in (0 - k)..k} : x \in gm.xs}]
  ELSE LET k == ((0 - d) + CellM - 1) \div CellM
       IN [t |-> "planar",
           xs |-> {x \in gm.xs : \A i \in (0 - k)..k : (x + i * CellM) \in gm.xs}]

Abs(n) == IF n < 0 THEN 0 - n ELSE n

\* planar area of the cell at metre offset x (projection distortion grows
\* away from the origin), in 1/AreaScale m^2
CellArea(x) == CellM * CellM * AreaScale + Abs(x \div CellM)

RECURSIVE SumArea(_)
SumArea(xs) ==
  IF xs = {} THEN 0
  ELSE LET x == CHOOSE y \in xs : TRUE IN CellArea(x) + SumArea(xs \ {x})

\* gm.area
area(gm) == SumArea(gm.xs)

SetMin(S) == CHOOSE m \in S : \A n \in S : m <= n
SetMax(S) == CHOOSE m \in S : \A n \in S : m >= n

RECURSIVE Parts(_)
\* the single parts of a geometry: maximal runs of adjacent cells, in order
Parts(cells) ==
  IF cells = {} THEN <<>>
  ELSE LET lo == SetMin(cells)
           hi == SetMax({h \in cells : \A c \in lo..h : c \in cells})
       IN <<Plain(lo..hi)>> \o Parts(cells \ (lo..hi))

\* faulty variant: the intersection is never decomposed
geoms_single(inter) == <<inter>>

\* getattr(inter, "geoms", [inter])
geoms(inter) ==
  IF Len(Parts(inter.cells)) >= 2 THEN Parts(inter.cells) ELSE <<inter>>

\* mapping(g)
mapping(g) == [t |-> "geometry", cells |-> g.cells]

\* shape(x): parses a GeoJSON geometry value
shape(x) ==
  IF x.t = "geometry" /\ x.parse THEN Return(x.g)
  ELSE Raise("Exception", "cannot parse geometry")

\* ------------------------------------------------- geometry cleaning helpers
_to_2d(g) == IF g.to2d = "ok" THEN [g EXCEPT !.has_z = FALSE] ELSE g

\* make_valid(g) of the engine
EngineMakeValid(g) ==
  IF g.valid THEN Return(g)
  ELSE CASE g.mv = "fix" -> Return([g EXCEPT !.valid = TRUE])
         [] g.mv = "empty" -> Return([g EXCEPT !.valid = TRUE, !.cells = {}])
         [] OTHER -> Raise("GEOSException", "make_valid failed")

\* g.buffer(0) of the engine
EngineBuffer0(g) ==
  CASE g.b0 = "fix" -> Return([g EXCEPT !.valid = TRUE])
    [] g.b0 = "empty" -> Return([g EXCEPT !.valid = TRUE, !.cells = {}])
    [] OTHER -> Raise("GEOSException", "buffer failed")

_fix_valid(g) ==
  LET g1 == IF g.has_z THEN _to_2d(g) ELSE g
      g2 == IF make_valid = "available" /\ ~IsRaise(EngineMakeValid(g1))
            THEN EngineMakeValid(g1).ret ELSE g1
      g3 == IF ~g2.valid /\ ~IsRaise(EngineBuffer0(g2))
            THEN EngineBuffer0(g2).ret ELSE g2
  IN IF g3.valid THEN g3 ELSE None

\* faults of one dissolve: bulk = unary_union raises; first / retry = the
\* positions (in the list handed to _safe_union) whose first / second
\* pairwise union raises
NoFaults == [bulk |-> FALSE, first |-> {}, retry |-> {}]

RECURSIVE SafeFold_noretry(_, _, _, _, _)
\* faulty variant: a geometry whose union fails is dropped at once, without repair
SafeFold_noretry(geoms_, k, u, calls, f) ==
  IF k > Len(geoms_) THEN [ret |-> u, calls |-> calls]
  ELSE IF k \notin f.first
       THEN SafeFold_noretry(geoms_, k + 1, EngineUnion(u, geoms_[k]),
                             calls \o <<"union">>, f)
       ELSE SafeFold_noretry(geoms_, k + 1, u, calls \o <<"union">>, f)

RECURSIVE SafeFold(_, _, _, _, _)
\* the loop of _safe_union from position k on; u is the union so far
SafeFold(geoms_, k, u, calls, f) ==
  IF k > Len(geoms_) THEN [ret |-> u, calls |-> calls]
  ELSE LET g == geoms_[k]
           g2 == _fix_valid(g)
       IN IF k \notin f.first
          THEN SafeFold(geoms_, k + 1, EngineUnion(u, g), calls \o <<"union">>, f)
          ELSE IF g2 = None
               THEN SafeFold(geoms_, k + 1, u, calls \o <<"union", "_fix_valid">>, f)
               ELSE IF k \in f.retry
                    THEN SafeFold(geoms_, k + 1, u,
                                  calls \o <<"union", "_fix_valid", "union">>, f)
                    ELSE SafeFold(geoms_, k + 1, EngineUnion(u, g2),
                                  calls \o <<"union", "_fix_valid", "union">>, f)

_safe_union(geoms_, f) ==
  IF Len(geoms_) = 0 THEN [ret |-> GeometryCollection, calls |-> <<>>]
  ELSE SafeFold(geoms_, 2, geoms_[1], <<>>, f)

RECURSIVE UnionAll(_, _)
UnionAll(geoms_, k) ==
  IF k = Len(geoms_) THEN geoms_[k]
  ELSE EngineUnion(UnionAll(geoms_, k + 1), geoms_[k])

\* unary_union(cleaned)
unary_union(geoms_, f) ==
  IF f.bulk THEN Raise("GEOSException", "TopologyException")
  ELSE Return(IF Len(geoms_) = 1 THEN geoms_[1] ELSE UnionAll(geoms_, 1))

\* ------------------------------------------------------------ union_from_fc
\* one pass of the loop body: the geometry appended to cleaned, or None
CleanFeature(feat) ==
  IF feat.t # "dict" \/ "geometry" \notin DOMAIN feat.d THEN None
  ELSE IF IsRaise(shape(feat.d["geometry"])) THEN None
  ELSE LET g == _fix_valid(shape(feat.d["geometry"]).ret)
       IN IF g # None /\ ~is_empty(g) THEN g ELSE None

RECURSIVE Cleaned(_)
Cleaned(feats) ==
  IF Len(feats) = 0 THEN <<>>
  ELSE LET g == CleanFeature(Head(feats))
       IN (IF g = None THEN <<>> ELSE <<g>>) \o Cleaned(Tail(feats))

RECURSIVE KeySeq(_)
KeySeq(K) ==
  IF K = {} THEN <<>>
  ELSE LET k == CHOOSE x \in K : TRUE
       IN <<[t |-> "key", k |-> k]>> \o KeySeq(K \ {k})

\* the values a `for x in v` loop visits: the elements of a list, the keys
\* of a dict, the characters of a str; anything else is not iterable
Iterate(v) ==
  CASE v.t = "list" -> Return(v.l)
    [] v.t = "dict" -> Return(KeySeq(DOMAIN v.d))
    [] v.t = "str" -> Return([i \in 1..Len(v.s) |-> Str(<<v.s[i]>>)])
    [] OTHER -> Raise("TypeError", "object is not iterable")

union_from_fc(fc, f) ==
  LET d == IF Truthy(fc) THEN fc ELSE EmptyDict
  IN IF d.t # "dict"
     THEN [exc |-> "AttributeError", msg |-> "object has no attribute 'get'", calls |-> <<>>]
     ELSE LET feats == Iterate(GetOr(d, "features", List(<<>>)))
          IN IF IsRaise(feats)
             THEN [exc |-> feats.exc, msg |-> feats.msg, calls |-> <<>>]
             ELSE LET cleaned == Cleaned(feats.ret)
                  IN IF Len(cleaned) = 0
                     THEN [ret |-> GeometryCollection, calls |-> <<>>]
                     ELSE IF ~IsRaise(unary_union(cleaned, f))
                          THEN [ret |-> unary_union(cleaned, f).ret,
                                calls |-> <<"unary_union">>]
                          ELSE [ret |-> _safe_union(cleaned, f).ret,
                                calls |-> <<"unary_union">> \o _safe_union(cleaned, f).calls]

\* -------------------------------------------------------------- process_one
DefaultBufferM == 10000

\* the integer nearest to n / d for d > 0, a tie going to the even one
HalfEven(n, d) ==
  LET q == n \div d
      r == n % d
  IN IF 2 * r < d THEN q
     ELSE IF 2 * r > d THEN q + 1
     ELSE IF q % 2 = 0 THEN q ELSE q + 1

\* 10^6 = 2^6 * FiveTo6
FiveTo6 == 15625

RECURSIVE Pow2Mod(_)
\* 2^s modulo 5^6
Pow2Mod(s) == IF s = 0 THEN 1 ELSE (2 * Pow2Mod(s - 1)) % FiveTo6

RECURSIVE ExpUp(_, _, _)
ExpUp(n, d, k) == IF 2 * d <= n THEN ExpUp(n, 2 * d, k + 1) ELSE k

RECURSIVE ExpDown(_, _)
ExpDown(n, k) == IF n >= FiveTo6 THEN k ELSE ExpDown(2 * n, k - 1)

\* the k with 2^k <= n / 5^6 < 2^(k+1)
BinaryExponent(n) == IF n >= FiveTo6 THEN ExpUp(n, FiveTo6, 0) ELSE ExpDown(n, 0)

\* area_m2 = n / 2 with n odd is a decimal tie of round(area_m2 / 1_000_000.0, 6).
\* The quotient n / (2^7 * 5^6) is stored as the nearest double (53 bits) and
\* round() rounds what is stored: upwards when the stored double lies above
\* the quotient, downwards when below, to even when the quotient is exact.
TieRoundsUp(n) ==
  LET r == ((n % FiveTo6) * Pow2Mod(52 - BinaryExponent(n))) % FiveTo6
  IN IF r = 0 THEN (n \div 2) % 2 = 1 ELSE 2 * r > FiveTo6

\* round(area_m2 / 1_000_000.0, 6) in 10^-6 km^2, area_m2 = a / AreaScale m^2
RoundKm2(a) ==
  LET q == a \div AreaScale
      r == a % AreaScale
  IN IF 2 * r < AreaScale THEN q
     ELSE IF 2 * r > AreaScale THEN q + 1
     ELSE IF TieRoundsUp(2 * q + 1) THEN q + 1 ELSE q

\* round(a / 1000) for an integer a >= 1000. The division gives the double
\* nearest to the quotient, m * 2^(k - 52) with m of 53 bits (ties to even), and
\* fails when that is 2^1024 or more; round() then rounds the double.
RoundOfQuotient(a) ==
  LET k == ExpUp(a, 1000, 0)
      m == IF k >= 52 THEN HalfEven(a, 1000 * 2 ^ (k - 52))
                      ELSE HalfEven(a * 2 ^ (52 - k), 1000)
  IN IF k > 1023 \/ (k = 1023 /\ m = 2 ^ 53)
     THEN Raise("OverflowError", "integer division result too large for a float")
     ELSE IF k >= 52 THEN Return(m * 2 ^ (k - 52))
          ELSE Return(HalfEven(m, 2 ^ (52 - k)))

\* round(buffer_m / 1000). Up to 2^31 - 1 the double is within 2^-32 of the
\* quotient and every tie k + 0.5 is a double, so the quotient itself is
\* rounded; beyond, the double is.
round_km(buffer_m) ==
  IF Abs(buffer_m) <= 2147483647 THEN Return(HalfEven(buffer_m, 1000))
  ELSE IF buffer_m > 0 THEN RoundOfQuotient(buffer_m)
  ELSE IF IsRaise(RoundOfQuotient(0 - buffer_m)) THEN RoundOfQuotient(0 - buffer_m)
  ELSE Return(0 - RoundOfQuotient(0 - buffer_m).ret)


RECURSIVE NatStr(_)
NatStr(n) == IF n < 10 THEN <<48 + n>> ELSE NatStr(n \div 10) \o <<48 + (n % 10)>>

\* str(n) as an f-string formats it
IntStr(n) == IF n < 0 THEN Chars(<<"-">>) \o NatStr(0 - n) ELSE NatStr(n)

s_x == Chars(<<"_","_","x","_","_">>)
s_overlap == Chars(<<"_","_","o","v","e","r","l","a","p","_">>)
s_buffer == Chars(<<"_","_","b","u","f","f","e","r","_">>)
s_km == Chars(<<"k","m">>) \o s_geojson

\* (name or default).replace(".geojson", "")
CleanName(name, default) ==
  LET v == IF Truthy(name) THEN name ELSE Str(default)
  IN IF v.t # "str" THEN Raise("AttributeError", "object has no attribute 'replace'")
     ELSE Return(Replace(v.s, s_geojson, <<>>))

\* fc or {"type": "FeatureCollection", "features": []}
FcOrEmpty(fc) ==
  IF Truthy(fc) THEN fc
  ELSE Dict([type |-> Str(Chars(<<"F","e","a","t","u","r","e","C","o","l","l","e","c","t","i","o","n">>)),
             features |-> List(<<>>)])

NoEngineFaults == [coop |-> NoFaults, prot |-> NoFaults, buffer |-> FALSE, inter |-> FALSE]

RECURSIVE SumPieces(_)
\* area_m2 accumulated over the non-empty pieces, in 1/AreaScale m^2
SumPieces(pieces) ==
  IF Len(pieces) = 0 THEN 0
  ELSE (IF is_empty(Head(pieces)) THEN 0 ELSE area(to_m(Head(pieces))))
       + SumPieces(Tail(pieces))

RECURSIVE PieceFeatures(_, _, _, _)
PieceFeatures(pieces, coop_name, prot_name, km) ==
  IF Len(pieces) = 0 THEN <<>>
  ELSE (IF is_empty(Head(pieces)) THEN <<>>
        ELSE <<[type |-> "Feature",
                properties |-> [coop |-> coop_name, protected |-> prot_name,
                                buffer_km |-> km],
                geometry |-> mapping(Head(pieces))]>>)
       \o PieceFeatures(Tail(pieces), coop_name, prot_name, km)

\* the record process_one returns; overlap_area_km2 is counted in 10^-6 km^2
ResultRecord(coop_name, prot_name, km, coop_buffer, inter_features, inter_area) ==
  [json |->
    [overlapFile |-> coop_name \o s_x \o prot_name \o s_overlap \o IntStr(km) \o s_km,
     bufferFile |-> coop_name \o s_buffer \o IntStr(km) \o s_km,
     overlap_geojson |-> [type |-> "FeatureCollection", features |-> inter_features],
     buffer_geojson |->
       [type |-> "FeatureCollection",
        features |-> IF is_empty(coop_buffer) THEN <<>>
                     ELSE <<[type |-> "Feature",
                             properties |-> [coop |-> coop_name, buffer_km |-> km],
                             geometry |-> mapping(coop_buffer)]>>],
     coop |-> coop_name,
     protected |-> prot_name,
     buffer_km |-> km,
     overlap_feature_count |-> Len(inter_features),
     overlap_area_km2 |-> inter_area]]

\* `if coop_union.is_empty:` - buffering is skipped
SkipBuffer(coop_union) == is_empty(coop_union)

\* faulty variant: only the buffered footprint is tested
OverlapEmpty_source(coop_buffer, prot_union) == is_empty(coop_buffer)

\* `if coop_buffer.is_empty or prot_union.is_empty:` - the overlap is empty
OverlapEmpty(coop_buffer, prot_union) == is_empty(coop_buffer) \/ is_empty(prot_union)

Fail(r, calls) == [exc |-> r.exc, msg |-> r.msg, calls |-> calls]

\* lines 154-193: the pieces are measured and the record is built; km is
\* round(buffer_m / 1000), first taken at line 166, 178 or 183
Measured(coop_name, prot_name, km, coop_buffer, pieces, calls) ==
  IF IsRaise(km) THEN Fail(km, calls)
  ELSE [ret |-> ResultRecord(coop_name, prot_name, km.ret, coop_buffer,
                             PieceFeatures(pieces, coop_name, prot_name, km.ret),
                             RoundKm2(SumPieces(pieces))),
        calls |-> calls]

\* lines 146-153: intersection + area
Intersected(coop_name, prot_name, coop_buffer, prot_union, buffer_m, f, calls) ==
  IF OverlapEmpty(coop_buffer, prot_union)
  THEN Measured(coop_name, prot_name, round_km(buffer_m), coop_buffer, <<>>, calls)
  ELSE IF f.inter
       THEN [exc |-> "GEOSException", msg |-> "intersection failed",
             calls |-> calls \o <<"intersection">>]
       ELSE Measured(coop_name, prot_name, round_km(buffer_m), coop_buffer,
                     geoms(EngineIntersection(coop_buffer, prot_union)),
                     calls \o <<"intersection">>)

\* lines 138-144: buffer in meters; cu and pu are the two dissolves
Buffered(coop_name, prot_name, cu, pu, buffer_m, f) ==
  IF IsRaise(cu) THEN Fail(cu, cu.calls)
  ELSE IF IsRaise(pu) THEN Fail(pu, cu.calls \o pu.calls)
  ELSE IF SkipBuffer(cu.ret)
       THEN Intersected(coop_name, prot_name, GeometryCollection, pu.ret, buffer_m, f,
                        cu.calls \o pu.calls)
       ELSE IF f.buffer
            THEN [exc |-> "GEOSException", msg |-> "buffer failed",
                  calls |-> cu.calls \o pu.calls \o <<"buffer">>]
            ELSE Intersected(coop_name, prot_name,
                             to_geo(EngineBuffer(to_m(cu.ret), buffer_m)), pu.ret,
                             buffer_m, f, cu.calls \o pu.calls \o <<"buffer">>)

\* lines 132-136: the names are cleaned, then the two collections dissolved
Named(pair, cn, pn, buffer_m, f) ==
  IF IsRaise(cn) THEN Fail(cn, <<>>)
  ELSE IF IsRaise(pn) THEN Fail(pn, <<>>)
  ELSE Buffered(cn.ret, pn.ret,
                union_from_fc(FcOrEmpty(pair.coop_fc), f.coop),
                union_from_fc(FcOrEmpty(pair.prot_fc), f.prot), buffer_m, f)

\* line 131 on: pp is what pick_pair(j) gave
Resolved_(pp, buffer_m, f) ==
  IF IsRaise(pp) THEN Fail(pp, <<>>)
  ELSE Named(pp.ret, CleanName(pp.ret.coop_name, s_coop),
             CleanName(pp.ret.prot_name, s_protected), buffer_m, f)

\* f: the engine faults met during the call
process_one(j, buffer_m, f) == Resolved_(pick_pair(j), buffer_m, f)

\* ------------------------------------------------------------------- routes
health == [ok |-> TRUE, service |-> "geo-buffer-intersect"]

\* the characters with a decimal digit value come in runs of ten, 0 to 9; these
\* are the zeros ("0" is 48)
DigitZeros ==
  {48, 1632, 1776, 1984, 2406, 2534, 2662, 2790, 2918, 3046, 3174, 3302,
   3430, 3558, 3664, 3792, 3872, 4160, 4240, 6112, 6160, 6470, 6608, 6784,
   6800, 6992, 7088, 7232, 7248, 42528, 43216, 43264, 43472, 43504, 43600, 44016,
   65296, 66720, 68912, 69734, 69872, 69942, 70096, 70384, 70736, 70864, 71248, 71360,
   71472, 71904, 72016, 72784, 73040, 73120, 92768, 92864, 93008, 120782, 120792, 120802,
   120812, 120822, 123200, 123632, 125264, 130032}

IsDigit(c) == \E z \in DigitZeros : z <= c /\ c <= z + 9

DigitVal(c) == c - (CHOOSE z \in DigitZeros : z <= c /\ c <= z + 9)

\* digits, with single underscores (95) allowed between two digits
IsDigits(s) ==
  /\ Len(s) > 0 /\ IsDigit(s[1]) /\ IsDigit(s[Len(s)])
  /\ \A i \in 1..Len(s) : IsDigit(s[i]) \/ (s[i] = 95 /\ i > 1 /\ IsDigit(s[i - 1]))

NotUnderscore(c) == c # 95

\* the characters int() skips around the number: tab, LF, VT, FF, CR, space,
\* and the white space outside ASCII
Whitespace ==
  {9, 10, 11, 12, 13, 32, 133, 160, 5760} \cup (8192..8202)
  \cup {8232, 8233, 8239, 8287, 12288}

RECURSIVE LStrip(_)
LStrip(s) == IF Len(s) > 0 /\ Head(s) \in Whitespace THEN LStrip(Tail(s)) ELSE s

RECURSIVE ParseNat(_)
ParseNat(s) ==
  IF Len(s) = 0 THEN 0 ELSE 10 * ParseNat(SubSeq(s, 1, Len(s) - 1)) + DigitVal(s[Len(s)])

\* the interpreter's limit on the digits of a text int() converts
MaxStrDigits == 4300

InRun(c) == IsDigit(c) \/ c = 95

\* the length of the run of digits and underscores s starts with
RunLen(s) ==
  IF \A i \in 1..Len(s) : InRun(s[i]) THEN Len(s)
  ELSE (CHOOSE i \in 1..Len(s) :
          ~InRun(s[i]) /\ \A j \in 1..(i - 1) : InRun(s[j])) - 1

\* the run of digits is scanned first: it must be well formed, then its digits
\* (underscores removed, leading zeros counted) must be within the limit, and
\* only then must nothing but whitespace follow it
Converted(sign, run, rest) ==
  IF ~IsDigits(run) THEN Raise("ValueError", "invalid literal for int()")
  ELSE IF Len(SelectSeq(run, NotUnderscore)) > MaxStrDigits
       THEN Raise("ValueError",
                  "Exceeds the limit (4300 digits) for integer string conversion")
       ELSE IF Len(LStrip(rest)) > 0 THEN Raise("ValueError", "invalid literal for int()")
            ELSE Return(sign * ParseNat(SelectSeq(run, NotUnderscore)))

\* the text after the sign
Unsigned(sign, s) ==
  Converted(sign, SubSeq(s, 1, RunLen(s)), SubSeq(s, RunLen(s) + 1, Len(s)))

\* int(text) once the leading whitespace is skipped: an optional sign
\* ("+" is 43, "-" is 45), then digits
IntLiteral(s) ==
  IF Len(s) > 0 /\ s[1] \in {43, 45}
  THEN Unsigned(IF s[1] = 45 THEN 0 - 1 ELSE 1, Tail(s))
  ELSE Unsigned(1, s)

\* int(x) of a float: the fraction is dropped, towards zero
Truncated(v) ==
  IF v.d = 0
  THEN IF v.n = 0 THEN Raise("ValueError", "cannot convert float NaN to integer")
       ELSE Raise("OverflowError", "cannot convert float infinity to integer")
  ELSE IF v.n < 0 THEN Return(0 - ((0 - v.n) \div v.d)) ELSE Return(v.n \div v.d)

\* int(v)
int(v) ==
  CASE v.t = "int" -> Return(v.n)
    [] v.t = "bool" -> Return(IF v.b THEN 1 ELSE 0)
    [] v.t = "float" -> Truncated(v)
    [] v.t = "str" -> IntLiteral(LStrip(v.s))
    [] OTHER -> Raise("TypeError", "int() argument must be a string or a number")

\* body.decode("utf-8") of the bytes read from an upload
decode(body) ==
  IF body.t = "notutf8"
  THEN Raise("UnicodeDecodeError", "'utf-8' codec can't decode byte")
  ELSE Return(body)

\* json.loads(text): the value of a JSON text; a text that is not JSON, one
\* nested deeper than the interpreter recurses, and one with an integer of more
\* digits than int() converts, raise
json_loads(text) ==
  CASE text.t = "json" -> Return(text.v)
    [] text.t = "deep" -> Raise("RecursionError", "maximum recursion depth exceeded")
    [] text.t = "bigint" ->
         Raise("ValueError", "Exceeds the limit for integer string conversion")
    [] OTHER -> Raise("JSONDecodeError", "Expecting value")

\* json.loads(body.decode("utf-8"))
LoadBody(body) == IF IsRaise(decode(body)) THEN decode(body) ELSE json_loads(decode(body).ret)

\* line 209 on, once the second read has resumed: coop_fc is the parsed first
\* body, prot_fc what parsing the second gives
FilesParsed(coop, protected, coop_fc, prot_fc, buffer_km, f) ==
  IF IsRaise(prot_fc) THEN Fail(prot_fc, <<>>)
  ELSE process_one(
         Dict([coop |-> Dict([name |-> IF Truthy(coop.filename) THEN coop.filename
                                       ELSE Str(s_coop \o s_geojson),
                              geojson |-> coop_fc]),
               protected |-> Dict([name |-> IF Truthy(protected.filename)
                                            THEN protected.filename
                                            ELSE Str(s_protected \o s_geojson),
                                   geojson |-> prot_fc.ret])]),
         buffer_km * 1000, f)

\* the route from call to response, its two reads resumed in turn
buffer_intersect_files(coop, protected, buffer_km, f) ==
  IF IsRaise(LoadBody(coop.body)) THEN Fail(LoadBody(coop.body), <<>>)
  ELSE FilesParsed(coop, protected, LoadBody(coop.body).ret, LoadBody(protected.body),
                   buffer_km, f)

\* `except Exception as e: out.append({"json": {"error": str(e)}})`
Caught(r) ==
  IF IsRaise(r) THEN [ret |-> [json |-> [error |-> r.msg]], calls |-> r.calls] ELSE r

NotADict == [exc |-> "AttributeError", msg |-> "object has no attribute 'get'", calls |-> <<>>]

\* faulty variant: an item's own buffer_km overrides the batch's
BatchItem_own(it, buffer_m, f) ==
  IF it.t # "dict" THEN Caught(NotADict)
  ELSE IF "buffer_km" \in DOMAIN it.d /\ it.d["buffer_km"].t = "int"
       THEN Caught(process_one(GetOr(it, "json", it), it.d["buffer_km"].n * 1000, f))
       ELSE Caught(process_one(GetOr(it, "json", it), buffer_m, f))

\* one pass of the loop body of buffer_intersect_batch
BatchItem(it, buffer_m, f) ==
  IF it.t # "dict" THEN Caught(NotADict)
  ELSE Caught(process_one(GetOr(it, "json", it), buffer_m, f))

RECURSIVE FailFast(_, _, _, _, _, _, _)
FailFast(r, items, k, buffer_m, fs, out, log) ==
  IF IsRaise(r) THEN Fail(r, log \o r.calls)
  ELSE IF k = Len(items) THEN [ret |-> Append(out, r.ret), calls |-> log \o r.calls]
  ELSE FailFast(IF items[k + 1].t = "dict"
                THEN process_one(GetOr(items[k + 1], "json", items[k + 1]), buffer_m,
                                 fs[k + 1])
                ELSE NotADict,
                items, k + 1, buffer_m, fs, Append(out, r.ret), log \o r.calls)

\* faulty variant: the loop has no try/except, the first failing item fails the call
BatchLoop_failfast(items, k, buffer_m, fs, out, log) ==
  IF k > Len(items) THEN [ret |-> out, calls |-> log]
  ELSE FailFast(IF items[k].t = "dict"
                THEN process_one(GetOr(items[k], "json", items[k]), buffer_m, fs[k])
                ELSE NotADict,
                items, k, buffer_m, fs, out, log)

RECURSIVE BatchLoop(_, _, _, _, _, _)
\* the loop from item k on; out and log are the records and engine calls so far
BatchLoop(items, k, buffer_m, fs, out, log) ==
  IF k > Len(items) THEN [ret |-> out, calls |-> log]
  ELSE BatchLoop(items, k + 1, buffer_m, fs,
                 Append(out, BatchItem(items[k], buffer_m, fs[k]).ret),
                 log \o BatchItem(items[k], buffer_m, fs[k]).calls)

\* fs[k] are the engine faults met while item k is processed
buffer_intersect_batch(payload, fs) ==
  LET got == Get(payload, "items")
      items == IF got = None THEN List(<<payload>>) ELSE got
      buffer_km == int(GetOr(payload, "buffer_km", PyInt(10)))
      it == Iterate(items)
  IN IF IsRaise(buffer_km) THEN Fail(buffer_km, <<>>)
     ELSE IF IsRaise(it) THEN Fail(it, <<>>)
     ELSE BatchLoop(it.ret, 1, buffer_km.ret * 1000, fs, <<>>, <<>>)

\* ------------------------------------------------------------ request values
Absent == [t |-> "absent"]

\* a dict entry, left out when the value is Absent
Field(k, v) == IF v = Absent THEN <<>> ELSE (k :> v)

SeqUpTo(S, n) == UNION {[1..k -> S] : k \in 0..n}

Raw(g) == [t |-> "geometry", parse |-> TRUE, g |-> g]
Feat(raw) == Dict([geometry |-> raw])
FC(feats) == Dict([features |-> List(feats)])

F_nogeom == Dict([properties |-> EmptyDict])
F_unparsed == Feat([t |-> "geometry", parse |-> FALSE])
F_poly == Feat(Raw(Plain({0, 1})))
F_z == Feat(Raw(Geom({1, 2}, TRUE, TRUE, "ok", "fix", "fix")))
F_mv == Feat(Raw(Geom({4}, FALSE, FALSE, "ok", "fix", "raise")))
F_b0 == Feat(Raw(Geom({6}, TRUE, FALSE, "raise", "raise", "fix")))
F_bad == Feat(Raw(Geom({8}, FALSE, FALSE, "ok", "raise", "raise")))
F_empty == Feat(Raw(Plain({})))
F_collapse == Feat(Raw(Geom({9}, FALSE, FALSE, "ok", "empty", "empty")))

RawFeatures ==
  {F_nogeom, F_unparsed, F_poly, F_z, F_mv, F_b0, F_bad, F_empty, F_collapse}

\* feature collections that are not a dict with a list of features
OddFCs ==
  {None, EmptyDict, Dict([type |-> Str(Chars(<<"F", "C">>))]), Dict([features |-> None]),
   Dict([features |-> PyInt(3)]), Dict([features |-> Dict([a |-> None])]),
   Dict([features |-> Str(Chars(<<"a", "b">>))]), List(<<F_poly>>), Str(Chars(<<"x">>)), PyInt(1)}

DissolveFCs == {FC(fs) : fs \in SeqUpTo(RawFeatures, MaxFeatures)} \cup OddFCs

\* the faults a dissolve of n surviving geometries can meet
DissolveFaults(n) ==
  {NoFaults} \cup
  {[bulk |-> TRUE, first |-> F, retry |-> R] :
     <<F, R>> \in {<<F1, R1>> \in (SUBSET (2..n)) \X (SUBSET (2..n)) : R1 \subseteq F1}}

Survivors(fc) ==
  IF fc.t = "dict" /\ "features" \in DOMAIN fc.d /\ fc.d["features"].t = "list"
  THEN Len(Cleaned(fc.d["features"].l)) ELSE 0

\* geometries as _safe_union may be handed them
SafeGeoms ==
  {Plain({0, 1}), Plain({3}),
   Geom({4}, FALSE, FALSE, "ok", "fix", "raise"),
   Geom({8}, FALSE, FALSE, "ok", "raise", "raise"),
   Geom({9}, FALSE, FALSE, "ok", "empty", "empty")}

FC1 == FC(<<F_poly>>)
FC2 == FC(<<Feat(Raw(Plain({3, 4}))), Feat(Raw(Plain({8})))>>)

KindValues ==
  {Absent, None, Str(<<>>), PyInt(0), PyInt(5),
   Str(s_coop), Str(Chars(<<"C", "o", "o", "p", "_", "f", "a", "r", "m">>)),
   Str(Chars(<<"C", "O", "O", "P", "E", "R", "A", "T", "I", "V", "E">>)),
   Str(Chars(<<"r", "e", "s", "e", "r", "v", "e">>)), Str(s_protected),
   Str(Chars(<<"x", "c", "o", "o", "p">>)), Str(Chars(<<"c", "o">>)),
   Str(Chars(<<"C", "O", "O", "P">>) \o <<201, 931>>), Str(<<192>> \o s_coop)}

Positional(k1, n1, g1, k2, n2, g2) ==
  Dict(Field("kind_1", k1) @@ Field("name_1", n1) @@ Field("geojson_1", g1)
       @@ Field("kind_2", k2) @@ Field("name_2", n2) @@ Field("geojson_2", g2))

Explicit(c, p, extra) == Dict(("coop" :> c) @@ ("protected" :> p) @@ extra)

ExplicitSides ==
  {None, EmptyDict, Str(Chars(<<"x">>)),
   Dict([name |-> Str(Chars(<<"A">>)), geojson |-> FC1]),
   Dict([geojson |-> FC2]), Dict([name |-> Str(Chars(<<"B">>))])}

NumberedExtras ==
  {<<>>,
   ("kind_2" :> Str(s_coop)) @@ ("name_1" :> Str(Chars(<<"X">>))) @@ ("geojson_1" :> FC2)
     @@ ("name_2" :> Str(Chars(<<"Y">>))) @@ ("geojson_2" :> FC1)}

PairItems ==
  {Positional(k1, Str(Chars(<<"X">>)), FC1, k2, Str(Chars(<<"Y">>)), FC2) :
     k1 \in KindValues, k2 \in KindValues}
  \cup {Positional(k1, n, g, Absent, Str(Chars(<<"Y">>)), FC2) :
          k1 \in {Absent, Str(s_protected)}, n \in {Absent, None}, g \in {Absent, None}}
  \cup {Explicit(c, p, x) : c \in ExplicitSides, p \in ExplicitSides, x \in NumberedExtras}
  \cup {Dict(("coop" :> Dict([name |-> Str(Chars(<<"A">>))])) @@ x) : x \in NumberedExtras}
  \cup {None, List(<<>>), PyInt(1), EmptyDict,
        Str(<<>>), Str(Chars(<<"x">>)), Str(s_coop), Str(s_coop \o Chars(<<" ">>) \o s_protected),
        List(<<Str(s_coop)>>), List(<<Str(s_protected), Str(s_coop)>>)}

RECURSIVE Concat(_)
Concat(ss) == IF Len(ss) = 0 THEN <<>> ELSE Head(ss) \o Concat(Tail(ss))

NameParts ==
  {Chars(<<"a">>), s_geojson, Chars(<<".", "b">>), Chars(<<".", "G", "E", "O", "J", "S", "O", "N">>)}

NameValues ==
  {Str(Concat(ps)) : ps \in SeqUpTo(NameParts, MaxNameParts)}
  \cup {Absent, None, PyInt(7)}

Side(n, g) == Dict(Field("name", n) @@ Field("geojson", g))

BufferFault == [NoEngineFaults EXCEPT !.buffer = TRUE]
InterFault == [NoEngineFaults EXCEPT !.inter = TRUE]

EngineFaultSet ==
  {NoEngineFaults, BufferFault, InterFault,
   [NoEngineFaults EXCEPT !.coop = [bulk |-> TRUE, first |-> {2}, retry |-> {2}]],
   [NoEngineFaults EXCEPT !.prot = [bulk |-> TRUE, first |-> {3}, retry |-> {}]]}

CoopFCs ==
  {Absent, None, FC(<<>>), Dict([features |-> None]), Str(Chars(<<"x">>)),
   FC(<<F_poly>>), FC(<<F_poly, Feat(Raw(Plain({20})))>>), FC(<<F_bad>>),
   FC(<<F_z, F_unparsed, F_mv>>)}

ProtFCs ==
  {Absent, FC(<<>>), Dict([features |-> PyInt(3)]), FC(<<F_collapse>>), FC1, FC2,
   FC(<<Feat(Raw(Plain({2}))), Feat(Raw(Plain({11, 12}))), Feat(Raw(Plain({21, 22, 23})))>>),
   FC(<<Feat(Raw(Plain({0 - 12, 0 - 11})))>>), FC(<<Feat(Raw(Plain({4})))>>)}

\* buffer_m as passed to process_one; Absent leaves the parameter to its default
BufferMs == {Absent, PyInt(0), PyInt(1000), PyInt(2500), PyInt(3500), PyInt(0 - 1000)}

ProcessOneRequests ==
  {[j |-> Explicit(Side(n1, FC1), Side(n2, FC2), <<>>), buffer_m |-> Absent,
    faults |-> NoEngineFaults] :
     <<n1, n2>> \in (NameValues \X {Absent, Str(Chars(<<"B">>) \o s_geojson)})
                    \cup ({Absent, Str(Chars(<<"A">>) \o s_geojson)} \X NameValues)}
  \cup {[j |-> Explicit(Side(Str(Chars(<<"A">>)), c), Side(Str(Chars(<<"B">>)), p), <<>>),
         buffer_m |-> b, faults |-> f] :
          c \in CoopFCs, p \in ProtFCs, b \in BufferMs, f \in EngineFaultSet}
  \cup {[j |-> Positional(k, Absent, FC2, Absent, Str(Chars(<<"Y">>) \o s_geojson), FC1),
         buffer_m |-> b, faults |-> NoEngineFaults] :
          k \in {Absent, Str(s_protected)}, b \in BufferMs}
  \cup {[j |-> j, buffer_m |-> Absent, faults |-> NoEngineFaults] : j \in {None, EmptyDict, Str(Chars(<<"x">>)), List(<<Str(s_coop), Str(s_protected)>>)}}

Upload(filename, body) == [filename |-> filename, body |-> body]

Uploads ==
  {Upload(n, b) :
     n \in {None, Str(<<>>), Str(Chars(<<"a">>) \o s_geojson)},
     b \in {[t |-> "json", v |-> FC1], [t |-> "json", v |-> FC2],
            [t |-> "json", v |-> Dict([features |-> None])], [t |-> "garbage"],
            [t |-> "notutf8"], [t |-> "deep"], [t |-> "bigint"]}}

FormBufferKm == {10, 0, 5}

I_good == Explicit(Side(Str(Chars(<<"A">>) \o s_geojson), FC1), Side(Str(Chars(<<"B">>)), FC2), <<>>)
I_own == Explicit(Side(Str(Chars(<<"A">>)), FC1), Side(Str(Chars(<<"B">>)), FC2), "buffer_km" :> PyInt(3))
I_wrapped ==
  Dict([json |-> Positional(Str(s_protected), Str(Chars(<<"X">>)), FC2, Absent, Str(Chars(<<"Y">>)), FC1),
        buffer_km |-> PyInt(1)])
I_badname == Explicit(Side(PyInt(7), FC1), Side(Str(Chars(<<"B">>)), FC2), <<>>)
I_nullfeatures == Explicit(Side(Absent, Dict([features |-> None])), Side(Absent, FC2), <<>>)
I_notdict == PyInt(4)

BatchItems == {I_good, I_own, I_wrapped, I_badname, I_nullfeatures, I_notdict, EmptyDict}

BatchBufferKm ==
  {Absent, None, PyInt(0), PyInt(5), Str(Chars(<<"7">>)), Str(Chars(<<"+", "7">>)),
   Str(Chars(<<" ", "1", "_", "0">>) \o <<10>>), Str(<<11, 1639, 160>>),
   Str(Chars(<<"-", " ", "7">>)), Str(Chars(<<"1", "_", "_", "0">>)), Str(<<28, 55>>),
   Str(<<>>), PyFloat(5, 2), PyFloat(0 - 5, 2), PyFloat(0, 0), PyBool(TRUE),
   Str([i \in 1..(MaxStrDigits + 1) |-> 48]),
   Str([i \in 1..(MaxStrDigits + 2) |-> IF i <= MaxStrDigits + 1 THEN 49 ELSE 120]),
   Str(Chars(<<"7", " ", "x">>))}

\* a payload and the engine faults met by each of its items
BatchRequests ==
  {[payload |-> Dict(Field("items", List(items)) @@ Field("buffer_km", b)), fs |-> fs] :
     <<items, fs, b>> \in
       {<<i1, f1, b1>> \in SeqUpTo(BatchItems, MaxItems)
                           \X SeqUpTo({NoEngineFaults, BufferFault}, MaxItems)
                           \X BatchBufferKm : Len(i1) = Len(f1)}}
  \cup {[payload |-> Dict(it.d @@ Field("items", i) @@ Field("buffer_km", b)), fs |-> <<f>>] :
          <<it, i, b, f>> \in {I_good, I_badname} \X {Absent, None} \X BatchBufferKm
                              \X {NoEngineFaults, BufferFault}}
  \cup {[payload |-> Dict([items |-> PyInt(3)]), fs |-> <<>>]}

\* ------------------------------------------------------------ specification
Init ==
  /\ make_valid \in {"available", "None"}
  /\ pc = "idle"
  /\ op = "none"
  /\ req = None
  /\ resp = None
  /\ engine_log = <<>>
  /\ frame = None
  /\ between = <<>>

\* the engine calls a result reports
Logged(result) == IF "calls" \in DOMAIN result THEN result.calls ELSE <<>>

\* a request is served: its result and its engine calls are recorded
Served(o, request, result) ==
  /\ pc' = "done"
  /\ op' = o
  /\ req' = request
  /\ resp' = result
  /\ engine_log' = Logged(result)
  /\ UNCHANGED <<make_valid, frame, between>>

Health ==
  /\ pc = "idle"
  /\ Served("health", None, Return(health))

PickPair ==
  /\ pc = "idle"
  /\ \E j \in PairItems : Served("pick_pair", [j |-> j], pick_pair(j))

UnionFromFc ==
  /\ pc = "idle"
  /\ \E fc \in DissolveFCs : \E f \in DissolveFaults(Survivors(fc)) :
       Served("union_from_fc", [fc |-> fc, faults |-> f], union_from_fc(fc, f))

SafeUnion ==
  /\ pc = "idle"
  /\ \E gs \in SeqUpTo(SafeGeoms, MaxFeatures) :
       \E f \in DissolveFaults(Len(gs)) \ {NoFaults} :
         Served("_safe_union", [geoms |-> gs, faults |-> f], _safe_union(gs, f))

ProcessOne ==
  /\ pc = "idle"
  /\ \E r \in ProcessOneRequests :
       Served("process_one", r,
              process_one(r.j, IF r.buffer_m = Absent THEN DefaultBufferM ELSE r.buffer_m.n,
                          r.faults))

\* buffer_intersect_files is called and suspends at `await coop.read()`
FilesCall ==
  /\ pc = "idle"
  /\ \E coop \in Uploads : \E protected \in Uploads : \E km \in FormBufferKm :
       \E f \in {NoEngineFaults, InterFault} :
         req' = [coop |-> coop, protected |-> protected, buffer_km |-> km, faults |-> f]
  /\ pc' = "await_coop"
  /\ op' = "buffer_intersect_files"
  /\ UNCHANGED <<make_valid, resp, engine_log, frame, between>>

\* the first read resumes: the body is decoded and parsed (line 208), and the
\* coroutine suspends at `await protected.read()` unless that raised
FilesCoopRead ==
  /\ pc = "await_coop"
  /\ IF IsRaise(LoadBody(req.coop.body))
     THEN /\ pc' = "done"
          /\ resp' = Fail(LoadBody(req.coop.body), <<>>)
          /\ UNCHANGED frame
     ELSE /\ pc' = "await_protected"
          /\ frame' = [coop_fc |-> LoadBody(req.coop.body).ret]
          /\ UNCHANGED resp
  /\ UNCHANGED <<make_valid, op, req, engine_log, between>>

\* the second read resumes: lines 209-214 run to the response
FilesProtectedRead ==
  /\ pc = "await_protected"
  /\ pc' = "done"
  /\ resp' = FilesParsed(req.coop, req.protected, frame.coop_fc,
                         LoadBody(req.protected.body), req.buffer_km, req.faults)
  /\ engine_log' = Logged(resp')
  /\ UNCHANGED <<make_valid, op, req, frame, between>>

\* while the coroutine is suspended the event loop serves another request
HealthBetween ==
  /\ pc \in {"await_coop", "await_protected"}
  /\ Len(between) < MaxBetween
  /\ between' = Append(between, Return(health))
  /\ UNCHANGED <<make_valid, pc, op, req, resp, engine_log, frame>>

BufferIntersectBatch ==
  /\ pc = "idle"
  /\ \E r \in BatchRequests :
       Served("buffer_intersect_batch", r, buffer_intersect_batch(r.payload, r.fs))

Next ==
  \/ Health
  \/ PickPair
  \/ UnionFromFc
  \/ SafeUnion
  \/ ProcessOne
  \/ FilesCall
  \/ FilesCoopRead
  \/ FilesProtectedRead
  \/ HealthBetween
  \/ BufferIntersectBatch

Spec == Init /\ [][Next]_vars

\* =================================================================== claims
\* ---- pick_pair
PositionalCall ==
  op = "pick_pair" /\ req.j.t = "dict"
  /\ ~("coop" \in DOMAIN req.j.d /\ "protected" \in DOMAIN req.j.d)

KindOf(n) == IF n = 1 THEN Get(req.j, "kind_1") ELSE Get(req.j, "kind_2")

\* the label is a text whose first four characters are "coop" in any case
CoopLabel(k) ==
  /\ k.t = "str" /\ Len(k.s) >= 4
  /\ k.s[1] \in {Ord("c"), Ord("C")} /\ k.s[2] \in {Ord("o"), Ord("O")}
  /\ k.s[3] \in {Ord("o"), Ord("O")} /\ k.s[4] \in {Ord("p"), Ord("P")}

\* no label: the key is missing, null or empty
NoLabel(k) == k.t = "None" \/ (k.t = "str" /\ k.s = <<>>)

OtherLabel(k) == k.t = "str" /\ k.s # <<>> /\ ~CoopLabel(k)

Slot1Source ==
  [ret |-> [coop_name |-> Get(req.j, "name_1"), coop_fc |-> Get(req.j, "geojson_1"),
            prot_name |-> Get(req.j, "name_2"), prot_fc |-> Get(req.j, "geojson_2")]]

Slot2Source ==
  [ret |-> [coop_name |-> Get(req.j, "name_2"), coop_fc |-> Get(req.j, "geojson_2"),
            prot_name |-> Get(req.j, "name_1"), prot_fc |-> Get(req.j, "geojson_1")]]

\* C2 as stated: in the positional shape, a slot whose kind label starts with
\* "coop" (any case) is returned as source and the other slot as target,
\* whichever slot it is.
C2_AsStated ==
  PositionalCall =>
    /\ CoopLabel(KindOf(1)) => resp = Slot1Source
    /\ CoopLabel(KindOf(2)) => resp = Slot2Source

\* C2 amended: a slot 1 whose label starts with "coop" is source, also when
\* slot 2's label does too; a slot 2 whose label starts with "coop" is source
\* when slot 1's label is missing, empty or a text that does not.
C2_CoopSlotIsSource ==
  PositionalCall =>
    /\ CoopLabel(KindOf(1)) => resp = Slot1Source
    /\ (CoopLabel(KindOf(2)) /\ (NoLabel(KindOf(1)) \/ OtherLabel(KindOf(1))))
         => resp = Slot2Source

C2_Witness ==
  /\ PositionalCall
  /\ CoopLabel(KindOf(2)) /\ KindOf(2).s # s_coop /\ OtherLabel(KindOf(1))
  /\ resp = Slot2Source /\ Slot1Source # Slot2Source

\* C3 as stated: in the positional shape, when no kind label identifies a coop
\* slot (no label at all, or labels none of which starts with "coop"),
\* pick_pair returns slot 1 as source and slot 2 as target and does not raise.
C3_AsStated ==
  (PositionalCall /\ ~CoopLabel(KindOf(1)) /\ ~CoopLabel(KindOf(2)))
    => resp = Slot1Source

\* C3 amended: with text (or missing) labels, pick_pair never raises; with no
\* label on either slot it returns slot 1 as source; with a label present and
\* none starting with "coop" it returns slot 2 as source and slot 1 as target.
C3_FallbackBySlot ==
  (PositionalCall /\ \A n \in {1, 2} : NoLabel(KindOf(n)) \/ OtherLabel(KindOf(n)))
    => /\ (NoLabel(KindOf(1)) /\ NoLabel(KindOf(2))) => resp = Slot1Source
       /\ (OtherLabel(KindOf(1)) \/ OtherLabel(KindOf(2))) => resp = Slot2Source

C3_Witness ==
  /\ PositionalCall
  /\ NoLabel(KindOf(1)) /\ OtherLabel(KindOf(2))
  /\ resp = Slot2Source /\ Slot1Source # Slot2Source

SideField(v, k) == IF v.t = "dict" /\ k \in DOMAIN v.d THEN v.d[k] ELSE None

ExplicitCall ==
  op = "pick_pair" /\ req.j.t = "dict"
  /\ "coop" \in DOMAIN req.j.d /\ "protected" \in DOMAIN req.j.d
  /\ \A k \in {"coop", "protected"} : req.j.d[k].t \in {"dict", "None"}

\* C8: an item with both keys "coop" and "protected" resolves to
\* (coop.name, coop.geojson, protected.name, protected.geojson), whatever
\* numbered kind_/name_/geojson_ keys it also carries.
C8_ExplicitShape ==
  ExplicitCall =>
    resp = [ret |-> [coop_name |-> SideField(req.j.d["coop"], "name"),
                     coop_fc |-> SideField(req.j.d["coop"], "geojson"),
                     prot_name |-> SideField(req.j.d["protected"], "name"),
                     prot_fc |-> SideField(req.j.d["protected"], "geojson")]]

C8_Witness ==
  /\ ExplicitCall
  /\ "kind_2" \in DOMAIN req.j.d /\ "geojson_1" \in DOMAIN req.j.d
  /\ req.j.d["coop"].t = "dict" /\ "name" \in DOMAIN req.j.d["coop"].d
  /\ ~IsRaise(resp) /\ resp.ret.coop_name = Str(Chars(<<"A">>)) /\ resp.ret.coop_fc = FC1

\* ---- union_from_fc, _safe_union
\* C4 as stated: union_from_fc raises for no feature collection (a dict, or
\* none at all), and returns an empty geometry when no feature survives.
C4_AsStated ==
  (op = "union_from_fc" /\ req.fc.t \in {"dict", "None"})
    => /\ ~IsRaise(resp)
       /\ Survivors(req.fc) = 0 => is_empty(resp.ret)

FoldCall ==
  \/ op = "_safe_union" /\ Len(req.geoms) > 0
  \/ op = "union_from_fc" /\ req.faults.bulk /\ Survivors(req.fc) > 0

Folded == IF op = "_safe_union" THEN req.geoms ELSE Cleaned(req.fc.d["features"].l)

\* the positions whose first pairwise union fails
Offenders == {k \in 2..Len(Folded) : k \in req.faults.first}

Dropped == {k \in Offenders : _fix_valid(Folded[k]) = None \/ k \in req.faults.retry}

Contribution(k) ==
  IF k \in Offenders THEN _fix_valid(Folded[k]).cells ELSE Folded[k].cells

Count(log, x) == Cardinality({i \in 1..Len(log) : log[i] = x})

\* C9: the stepwise fallback returns the union of every geometry but the
\* dropped ones (those whose union fails and whose repair yields Invalid or
\* whose retry fails too), repairs each offender exactly once, retries the
\* union only after a successful repair, and raises nothing.
C9_StepwiseFallback ==
  FoldCall =>
    /\ ~IsRaise(resp)
    /\ resp.ret.cells = UNION {Contribution(k) : k \in (1..Len(Folded)) \ Dropped}
    /\ Count(engine_log, "_fix_valid") = Cardinality(Offenders)
    /\ Count(engine_log, "union")
         = (Len(Folded) - 1)
           + Cardinality({k \in Offenders : _fix_valid(Folded[k]) # None})

C9_Witness ==
  /\ op = "union_from_fc" /\ req.faults.bulk /\ Survivors(req.fc) = 3
  /\ req.faults.first = {2, 3} /\ req.faults.retry = {3}
  /\ ~IsRaise(resp)
  /\ resp.ret.cells = Folded[1].cells \cup Folded[2].cells
  /\ ~(Folded[3].cells \subseteq resp.ret.cells)
  /\ ~(Folded[2].cells \subseteq Folded[1].cells)

\* ---- process_one
ProcessOneReturned == op = "process_one" /\ ~IsRaise(resp)

Resolved == pick_pair(req.j).ret
SourceUnion == union_from_fc(FcOrEmpty(Resolved.coop_fc), req.faults.coop).ret
TargetUnion == union_from_fc(FcOrEmpty(Resolved.prot_fc), req.faults.prot).ret
BufferM == IF req.buffer_m = Absent THEN 10000 ELSE req.buffer_m.n

\* the buffered footprint, as the result reports it
Footprint ==
  IF resp.ret.json.buffer_geojson.features = <<>> THEN {}
  ELSE resp.ret.json.buffer_geojson.features[1].geometry.cells

\* C5: when the dissolved source or the dissolved target is empty, the result
\* has no overlap piece, a count of 0 and an area of 0; an empty source is not
\* buffered and no intersection is computed.
C5_EmptySideEmptyOverlap ==
  (ProcessOneReturned /\ (is_empty(SourceUnion) \/ is_empty(TargetUnion)))
    => /\ resp.ret.json.overlap_geojson.features = <<>>
       /\ resp.ret.json.overlap_feature_count = 0
       /\ resp.ret.json.overlap_area_km2 = 0
       /\ Count(engine_log, "intersection") = 0
       /\ is_empty(SourceUnion)
            => Count(engine_log, "buffer") = 0 /\ Footprint = {}

C5_Witness ==
  /\ ProcessOneReturned
  /\ is_empty(TargetUnion) /\ ~is_empty(SourceUnion) /\ Footprint # {}
  /\ Count(engine_log, "buffer") = 1
  /\ resp.ret.json.overlap_feature_count = 0

StripSuffix(s_, suffix) ==
  IF Len(s_) >= Len(suffix) /\ SubSeq(s_, Len(s_) - Len(suffix) + 1, Len(s_)) = suffix
  THEN SubSeq(s_, 1, Len(s_) - Len(suffix)) ELSE s_

ReportedName(n, default) ==
  IF n.t = "None" \/ (n.t = "str" /\ n.s = <<>>) THEN default
  ELSE StripSuffix(n.s, Chars(<<".", "g", "e", "o", "j", "s", "o", "n">>))

\* C6 as stated: the names process_one reports are the supplied names with a
\* ".geojson" suffix stripped and nothing else changed, "coop" / "protected"
\* when the name is absent.
C6_AsStated ==
  ProcessOneReturned =>
    /\ resp.ret.json.coop = ReportedName(Resolved.coop_name, Chars(<<"c", "o", "o", "p">>))
    /\ resp.ret.json.protected
         = ReportedName(Resolved.prot_name, Chars(<<"p", "r", "o", "t", "e", "c", "t", "e", "d">>))

\* the maximal runs of adjacent cells of a set, as <<first, last>>
Runs(C) ==
  {<<lo, hi>> \in C \X C :
     /\ lo <= hi /\ \A c \in lo..hi : c \in C
     /\ (lo - 1) \notin C /\ (hi + 1) \notin C}

Overlap == Footprint \cap TargetUnion.cells

PieceList == resp.ret.json.overlap_geojson.features

\* C10: with a non-empty footprint and a non-empty target, the overlap pieces
\* are exactly the non-empty single parts of their intersection, one record
\* each, in part order, each tagged with the two names and the buffer distance
\* in km; the count is the number of records and the area the sum of the
\* parts' planar areas (in km^2, to 6 places).
C10_OnePiecePerPart ==
  (ProcessOneReturned /\ Footprint # {} /\ ~is_empty(TargetUnion))
    => /\ Len(PieceList) = Cardinality(Runs(Overlap))
       /\ \A i \in 1..Len(PieceList) :
            /\ PieceList[i].geometry.cells # {}
            /\ <<SetMin(PieceList[i].geometry.cells), SetMax(PieceList[i].geometry.cells)>>
                 \in Runs(Overlap)
            /\ PieceList[i].geometry.cells
                 = SetMin(PieceList[i].geometry.cells)..SetMax(PieceList[i].geometry.cells)
            /\ i > 1 => SetMax(PieceList[i - 1].geometry.cells)
                          < SetMin(PieceList[i].geometry.cells)
            /\ PieceList[i].properties
                 = [coop |-> resp.ret.json.coop, protected |-> resp.ret.json.protected,
                    buffer_km |-> HalfEven(BufferM, 1000)]
       /\ resp.ret.json.overlap_feature_count = Len(PieceList)
       /\ 2 * Abs(resp.ret.json.overlap_area_km2 * AreaScale
                  - SumArea({c * CellM : c \in Overlap})) <= AreaScale

C10_Witness ==
  /\ ProcessOneReturned /\ Footprint # {} /\ ~is_empty(TargetUnion)
  /\ Len(PieceList) = 2 /\ resp.ret.json.overlap_feature_count = 2
  /\ Cardinality(Overlap) >= 3
  /\ Overlap # TargetUnion.cells
  /\ BufferM = 2500

\* ---- buffer_intersect_batch
\* the batch carries a list of items and no distance, or a number (an integer
\* or a finite fractional number) as its distance
BatchOfItems ==
  /\ op = "buffer_intersect_batch"
  /\ Get(req.payload, "items").t = "list"
  /\ "buffer_km" \in DOMAIN req.payload.d =>
       \/ req.payload.d["buffer_km"].t = "int"
       \/ req.payload.d["buffer_km"].t = "float" /\ req.payload.d["buffer_km"].d > 0

BatchItems_ == req.payload.d["items"].l

\* the whole kilometres of the number n / d, the fraction dropped
WholeKm(n, d) == IF n >= 0 THEN n \div d ELSE 0 - ((0 - n) \div d)

\* the batch's distance in whole km, 10 when the batch carries none
BatchKm ==
  IF "buffer_km" \notin DOMAIN req.payload.d THEN 10
  ELSE IF req.payload.d["buffer_km"].t = "int" THEN req.payload.d["buffer_km"].n
  ELSE WholeKm(req.payload.d["buffer_km"].n, req.payload.d["buffer_km"].d)

\* what item i yields when processed on its own
Alone(i) ==
  IF BatchItems_[i].t # "dict" THEN [exc |-> "AttributeError"]
  ELSE process_one(GetOr(BatchItems_[i], "json", BatchItems_[i]), BatchKm * 1000, req.fs[i])

\* C1: a batch of N items yields N records in input order; an item whose
\* processing raises yields an error record at its own position and every
\* other record is what its item yields on its own.
C1_PerItemIsolation ==
  BatchOfItems =>
    /\ ~IsRaise(resp)
    /\ Len(resp.ret) = Len(BatchItems_)
    /\ \A i \in 1..Len(BatchItems_) :
         IF IsRaise(Alone(i)) THEN DOMAIN resp.ret[i].json = {"error"}
         ELSE resp.ret[i] = Alone(i).ret

C1_Witness ==
  /\ BatchOfItems /\ ~IsRaise(resp) /\ Len(resp.ret) = 2
  /\ DOMAIN resp.ret[1].json = {"error"}
  /\ "error" \notin DOMAIN resp.ret[2].json
  /\ resp.ret[2].json.overlap_feature_count > 0

OwnKm(i) ==
  IF BatchItems_[i].t = "dict" /\ "buffer_km" \in DOMAIN BatchItems_[i].d
  THEN BatchItems_[i].d["buffer_km"].n ELSE BatchKm

\* C7 as stated: an item is buffered by its own distance when it carries one,
\* else by the batch's, else by the default of 10 km.
C7_AsStated ==
  (BatchOfItems /\ ~IsRaise(resp)) =>
    \A i \in 1..Len(resp.ret) :
      "error" \notin DOMAIN resp.ret[i].json => resp.ret[i].json.buffer_km = OwnKm(i)

\* C7 amended: every item of a batch is buffered by the batch's distance in
\* whole kilometres (an integer as given, a fractional number with its fraction
\* dropped), else by the default of 10 km; a distance carried by an item is
\* ignored.
C7_BatchDistance ==
  (BatchOfItems /\ ~IsRaise(resp)) =>
    \A i \in 1..Len(resp.ret) :
      "error" \notin DOMAIN resp.ret[i].json =>
        /\ resp.ret[i].json.buffer_km = BatchKm
        /\ resp.ret[i].json.buffer_geojson.features # <<>> =>
             resp.ret[i].json.buffer_geojson.features[1].properties.buffer_km = BatchKm

C7_Witness ==
  /\ BatchOfItems /\ ~IsRaise(resp) /\ Len(resp.ret) >= 1
  /\ "error" \notin DOMAIN resp.ret[1].json
  /\ OwnKm(1) = 3 /\ BatchKm = 5 /\ resp.ret[1].json.buffer_km = 5

====
